---- MODULE Spec2Model ----
(***************************************************************************)
(* State-machine model of the time-travel game of src/main.py and          *)
(* src/time_travel.py: the global clock, the player's dilated local clock, *)
(* the reversible shoot commands, the permanent command log, the           *)
(* rewind-to-resume branch evaluation and the per-frame ghost lifecycle.   *)
(*                                                                         *)
(* Times are fixed point, one unit = 0.01 s (so 0.01 -> 1, 0.15 -> 15,     *)
(* 2.5 -> 250).  Positions are pixels on the horizontal line y = 300       *)
(* through the field centre (the a/d keys; w/s is symmetric).  The         *)
(* dilation factor is in halves.  Divisions round down.                    *)
(***************************************************************************)
EXTENDS Integers, Sequences, FiniteSets, TLC

\* ---------------------------------------------------------------- constants
MAX_REWINDS == 3
ShootDelay == 1
ShootCooldown == 15
GhostLifetime == 250
BulletLifetime == 140
BakeStep == 5
MoveSpeed == 170
BulletSpeed == 250
CenterX == 400
CenterY == 300
MaxRadius == 500
TicksPerSecond == 100
FactorScale == 2

\* ------------------------------------------------------------------- bounds
MaxTime == 450
MaxLog == 2
\* how far below zero a retired timeline's ghost counter is followed
MaxDebt == 1
\* commands in the log of a keyboard-only session
MaxMoves == 3
\* commands in the log of a mouse-only session
MaxShots == 3
\* commands in the log of a keyboard-only session with lag frames
MaxLagMoves == 2
\* commands in the queue of an entity on its own, and their latest time
MaxQueue == 2
MaxQueueTime == 3
\* samples of a path given to get_pos on its own, and their latest time
MaxPathLen == 3
MaxSampleTime == 3

\* frame durations (clock.tick), movement intents, mouse targets, bullet ids
DTs == {150}
MoveDirs == {-1, 0, 1}
MouseXs == {500}
BulletIds == {7, 8}

\* ------------------------------------------------------------------ helpers
Max(a, b) == IF a >= b THEN a ELSE b
Min(a, b) == IF a <= b THEN a ELSE b
Abs(a) == IF a >= 0 THEN a ELSE 0 - a

\* (1 - t)^2.3 at t = 0, 0.1, ..., 1.0 (1, .785, .599, .440, .309, .203, .122,
\* .063, .025, .005, 0), in halves, rounded up so that only t = 1 gives 0
FactorTable == <<2, 2, 2, 1, 1, 1, 1, 1, 1, 1, 0>>

\* get_time_factor(pos, (400, 300), 500)
get_time_factor(pos) ==
    LET dist == Abs(pos - CenterX)
        t10  == Min((dist * 10) \div MaxRadius, 10)
    IN  FactorTable[t10 + 1]

\* get_time_factor((x, y), (400, 300), 500) for a point off that line: the
\* tenth of the radius the distance falls in, found by comparing squares
get_time_factor_xy(x, y) ==
    LET d2  == (x - CenterX) * (x - CenterX) + (y - CenterY) * (y - CenterY)
        t10 == CHOOSE k \in 0..10 :
                   /\ (k * MaxRadius) * (k * MaxRadius) <= 100 * d2 \/ k = 0
                   /\ k = 10 \/ ((k + 1) * MaxRadius) * ((k + 1) * MaxRadius) > 100 * d2
    IN  FactorTable[t10 + 1]

\* local_dt * time_factor of TimeEntity.update, for a frame of length dt
LocalDt(dt, pos) == (dt * get_time_factor(pos)) \div FactorScale

\* the value get_pos returns on an empty path; no position of the model is as
\* far out as this
None == 0 - 1000000

\* mutant: alpha is not clamped to [0, 1]
RECURSIVE GetPosFromUnclamped(_, _, _)
GetPosFromUnclamped(path, k, q) ==
    IF k > Len(path) THEN path[Len(path)][2]
    ELSE LET pt == path[k - 1][1]
             pp == path[k - 1][2]
             nt == path[k][1]
             np == path[k][2]
         IN  IF q <= nt
             THEN IF nt > pt
                  THEN pp + ((np - pp) * (q - pt)) \div (nt - pt)
                  ELSE pp
             ELSE GetPosFromUnclamped(path, k + 1, q)

\* MovementComponent.get_pos, the loop over a non-empty path of <<time, pos>>
\* samples
RECURSIVE GetPosFrom(_, _, _)
GetPosFrom(path, k, q) ==
    IF k > Len(path) THEN path[Len(path)][2]
    ELSE LET pt == path[k - 1][1]
             pp == path[k - 1][2]
             nt == path[k][1]
             np == path[k][2]
         IN  IF q <= nt
             THEN IF nt > pt
                  THEN pp + ((np - pp) * Min(Max(q - pt, 0), nt - pt)) \div (nt - pt)
                  ELSE pp
             ELSE GetPosFrom(path, k + 1, q)

get_pos(path, q) == IF path = <<>> THEN None ELSE GetPosFrom(path, 2, q)

\* one baking step of ensure_path: velocity * step_size * time_factor
BakeNext(last_pos, velocity) ==
    last_pos + (velocity * BakeStep * get_time_factor(last_pos))
               \div (TicksPerSecond * FactorScale)

\* MovementComponent.ensure_path from an empty path
RECURSIVE BakeFrom(_, _, _, _)
BakeFrom(t, last_pos, until_time, velocity) ==
    IF t >= until_time THEN <<>>
    ELSE LET t2 == t + BakeStep
             p2 == BakeNext(last_pos, velocity)
         IN  <<<<t2, p2>>>> \o BakeFrom(t2, p2, until_time, velocity)

ensure_path(until_time, start_pos, velocity) == BakeFrom(0, start_pos, until_time, velocity)

\* get_pos on the baked path, walked sample by sample: <<pt, pp>> is a baked
\* sample at or before the query
RECURSIVE BakedPosFrom(_, _, _, _, _)
BakedPosFrom(pt, pp, q, until_time, velocity) ==
    IF pt >= until_time THEN pp
    ELSE LET nt == pt + BakeStep
             np == BakeNext(pp, velocity)
         IN  IF q <= nt
             THEN pp + ((np - pp) * Min(Max(q - pt, 0), nt - pt)) \div (nt - pt)
             ELSE BakedPosFrom(nt, np, q, until_time, velocity)

\* Bullet.update: self.movement.get_pos(self.local_time) on the path baked in __init__
BulletPos(start_pos, velocity, until_time, q) ==
    BakedPosFrom(BakeStep, BakeNext(start_pos, velocity), q, until_time, velocity)

\* increasing enumeration of a finite set of integers
RECURSIVE SeqOfSet(_)
SeqOfSet(S) ==
    IF S = {} THEN <<>>
    ELSE LET m == CHOOSE x \in S : \A y \in S : x <= y
         IN  <<m>> \o SeqOfSet(S \ {m})

\* defaultdict(int) access
Count(active, tid) == IF tid \in DOMAIN active THEN active[tid] ELSE 0
SetCount(active, tid, n) == [k \in DOMAIN active \cup {tid} |-> IF k = tid THEN n ELSE active[k]]
DelCount(active, tid) == [k \in DOMAIN active \ {tid} |-> active[k]]

\* ----------------------------------------------------------------- entities
NoEntity ==
    [kind |-> "none", local_time |-> 0, pos |-> 0, pos0 |-> 0, velocity |-> 0,
     bullet_id |-> 0, max_lifetime |-> 0, spawn_time |-> 0, timeline_id |-> 0,
     cmd_ref |-> 0, path |-> <<>>]

\* Bullet.__init__: pos is the spawn point until the first update
Bullet(pos, velocity, bullet_id) ==
    [NoEntity EXCEPT !.kind = "Bullet", !.pos = pos, !.pos0 = pos,
                     !.velocity = velocity, !.bullet_id = bullet_id,
                     !.max_lifetime = BulletLifetime]

\* GhostBullet.__init__ (bullet_id = -1; cmd_ref = 0 stands for "no cmd_ref attribute")
GhostBullet(spawn_time, pos, velocity, global_time, max_lifetime, timeline_id, cmd_ref) ==
    [NoEntity EXCEPT !.kind = "GhostBullet", !.pos = pos, !.pos0 = pos,
                     !.velocity = velocity, !.bullet_id = 0 - 1,
                     !.max_lifetime = max_lifetime, !.spawn_time = spawn_time,
                     !.timeline_id = timeline_id, !.cmd_ref = cmd_ref,
                     !.local_time = Max(0, global_time - spawn_time)]

\* GhostPlayer.__init__
GhostPlayer(movement_path, timeline_id) ==
    [NoEntity EXCEPT !.kind = "GhostPlayer", !.pos = movement_path[1][2],
                     !.pos0 = movement_path[1][2], !.path = movement_path,
                     !.timeline_id = timeline_id]

\* lines 176-179: the grid of timers, x in range(100, 701, 100) outside and
\* y in range(100, 501, 100) inside
TimerPositions ==
    [i \in 1..35 |-> <<100 * (1 + (i - 1) \div 5), 100 * (1 + ((i - 1) % 5))>>]

\* the dilation factor at each timer: a timer never moves
TimerFactors ==
    [k \in 1..35 |-> get_time_factor_xy(TimerPositions[k][1], TimerPositions[k][2])]

\* the factors that occur among the timers: timers of equal factor start at 0
\* and make the same steps, so they share one clock value
TimerClasses == {TimerFactors[k] : k \in 1..35}

\* Timer.__init__: local_time
Timer == 0

\* Timer.count, which update sets from local_time
TimerCount(local_time) == Max(local_time, 0)

IsGhost(e) == e.kind \in {"GhostBullet", "GhostPlayer"}
IsBullet(e) == e.kind \in {"Bullet", "GhostBullet"}

\* ----------------------------------------------------------------- commands
\* Command objects; id is the object's identity
ShootCommand(id, pos, velocity, bullet_id, scheduled_time, origin) ==
    [id |-> id, type |-> "shoot", scheduled_time |-> scheduled_time,
     origin_timeline |-> origin, ghosted_timelines |-> {}, executed |-> FALSE,
     pos |-> pos, velocity |-> velocity, bullet_id |-> bullet_id]

MoveCommand(id, pos, scheduled_time, origin) ==
    [id |-> id, type |-> "player_move", scheduled_time |-> scheduled_time,
     origin_timeline |-> origin, ghosted_timelines |-> {}, executed |-> FALSE,
     pos |-> pos, velocity |-> 0, bullet_id |-> 0]

RECURSIVE MaxId(_, _)
MaxId(log, k) == IF k > Len(log) THEN 0 ELSE Max(log[k].id, MaxId(log, k + 1))

\* a fresh object identity
NewId(log) == 1 + MaxId(log, 1)

\* position in the log of the command object id (0 when it is not in the log)
IndexOf(log, id) ==
    IF \E i \in 1..Len(log) : log[i].id = id
    THEN CHOOSE i \in 1..Len(log) : log[i].id = id
    ELSE 0

IsShoot(cmd) == cmd.type = "shoot"
IsMove(cmd) == cmd.type = "player_move"

\* undo_bullet: remove the first Bullet instance with this bullet_id
undo_bullet(ents, bullet_id) ==
    LET hits == {i \in 1..Len(ents) : IsBullet(ents[i]) /\ ents[i].bullet_id = bullet_id}
    IN  IF hits = {} THEN ents
        ELSE LET j == CHOOSE i \in hits : \A h \in hits : i <= h
             IN  [i \in 1..(Len(ents) - 1) |-> IF i < j THEN ents[i] ELSE ents[i + 1]]

\* shoot_bullet
shoot_bullet(ents, cmd) == Append(ents, Bullet(cmd.pos, cmd.velocity, cmd.bullet_id))

\* mutant: execute without the executed test
executeUnguarded(log, ents, i) ==
    [log |-> [log EXCEPT ![i].executed = TRUE],
     entities |-> shoot_bullet(ents, log[i])]

\* Command.execute on the command at position i of the log, with its
\* forward_fn shoot_bullet (no other command is ever executed: a move command
\* has forward_fn None and is in no queue)
execute(log, ents, i) ==
    IF ~log[i].executed
    THEN [log |-> [log EXCEPT ![i].executed = TRUE],
          entities |-> shoot_bullet(ents, log[i])]
    ELSE [log |-> log, entities |-> ents]

\* Command.reverse on the command at position i of the log, with its
\* backward_fn undo_bullet
reverse(log, ents, i) ==
    IF log[i].executed
    THEN [log |-> [log EXCEPT ![i].executed = FALSE],
          entities |-> undo_bullet(ents, log[i].bullet_id)]
    ELSE [log |-> log, entities |-> ents]

\* -------------------------------------------------------------------- state
VARIABLES
    global_time,               \* world.global_time
    last_global_time,          \* world.last_global_time
    rewinding,                 \* world.rewinding
    was_rewinding_last_frame,
    rewind_charges,
    active_timelines,          \* defaultdict(int): timeline id -> live ghost count
    current_timeline_id,
    next_timeline_id,
    player,                    \* the Player entity
    timers,                    \* factor -> the local_time of the Timer entities there
    entities,                  \* world.entities without the player and the timers
    global_commands,           \* world.global_commands, as command ids
    permanent_command_log,     \* world.permanent_command_log
    frame,                     \* what the last frame's branch evaluation and retirement did
    refunds,                   \* history: timeline id -> charges refunded for it so far
    discarded,                 \* history: the candidate ids of the discarded evaluations
    query,                     \* a call of get_pos on a path of its own, and its result
    cursor                     \* a TimeEntity with queued commands, on its own

vars == <<global_time, last_global_time, rewinding, was_rewinding_last_frame,
          rewind_charges, active_timelines, current_timeline_id, next_timeline_id,
          player, timers, entities, global_commands, permanent_command_log, frame,
          refunds, discarded, query, cursor>>

\* the timeline bookkeeping a branch evaluation may touch
Book(cur, nxt, charges, active) ==
    [current_timeline_id |-> cur, next_timeline_id |-> nxt,
     rewind_charges |-> charges, active_timelines |-> active]

NoFrame ==
    [branch_ran |-> FALSE, ghosts_made |-> 0,
     future_cmds |-> FALSE, time_point |-> 0,
     pre |-> Book(0, 1, MAX_REWINDS, <<>>), post |-> Book(0, 1, MAX_REWINDS, <<>>),
     ghosted |-> {}, refunded |-> {}]

\* no call of get_pos outside the game
NoQuery == [path |-> <<>>, time |-> 0, result |-> 0, done |-> FALSE]

\* TimeEntity.__init__: local_time, command_queue, command_index; after is the
\* last operation on the entity and cut what the last truncation removed
NoCursor ==
    [local_time |-> 0, command_queue |-> <<>>, command_index |-> 0,
     after |-> "init", cut |-> 0]

\* the world after construction (main.py:23-28, 171-181)
InitWorld ==
    /\ global_time = 0
    /\ last_global_time = 0
    /\ rewinding = FALSE
    /\ was_rewinding_last_frame = FALSE
    /\ rewind_charges = MAX_REWINDS
    /\ active_timelines = <<>>
    /\ current_timeline_id = 0
    /\ next_timeline_id = 1
    /\ player = [local_time |-> 0, pos |-> CenterX, last_shot_time |-> 0,
                 path |-> <<<<0, CenterX>>>>]
    /\ timers = [f \in TimerClasses |-> Timer]
    /\ entities = <<>>
    /\ global_commands = <<>>
    /\ permanent_command_log = <<>>
    /\ frame = NoFrame
    /\ refunds = <<>>

\* the value of discarded in the sessions that keep no record of the discards
NoRecord == {0 - 1}

Init ==
    /\ InitWorld
    /\ discarded = NoRecord
    /\ query = NoQuery
    /\ cursor = NoCursor

\* ----------------------------------------------------------- event handlers
\* mutant: the r key starts a rewind whatever the charges
ToggleRewindUngated ==
    /\ rewinding' = ~rewinding
    /\ UNCHANGED <<global_time, last_global_time, was_rewinding_last_frame,
                   rewind_charges, active_timelines, current_timeline_id,
                   next_timeline_id, player, timers, entities, global_commands,
                   permanent_command_log, frame, refunds, discarded, query, cursor>>

\* KEYDOWN K_r
ToggleRewind ==
    /\ rewinding \/ rewind_charges > 0
    /\ rewinding' = ~rewinding
    /\ UNCHANGED <<global_time, last_global_time, was_rewinding_last_frame,
                   rewind_charges, active_timelines, current_timeline_id,
                   next_timeline_id, player, timers, entities, global_commands,
                   permanent_command_log, frame, refunds, discarded, query, cursor>>

\* mutant: the distance to the last shot, whichever side of it the clock is on
can_shoot_either_side == Abs(player.local_time - player.last_shot_time) >= ShootCooldown

can_shoot == (player.local_time - player.last_shot_time) >= ShootCooldown

\* MOUSEBUTTONDOWN button 1: Player.shoot, with Command.execute -> shoot_bullet
ShootBody(mouse_x, bullet_id) ==
    /\ can_shoot
    /\ LET velocity == IF mouse_x - player.pos >= 0 THEN BulletSpeed ELSE 0 - BulletSpeed
           cmd == ShootCommand(NewId(permanent_command_log), player.pos, velocity,
                               bullet_id, player.local_time + ShootDelay,
                               current_timeline_id)
           logged == Append(permanent_command_log, cmd)
           w == execute(logged, entities, Len(logged))
       IN  /\ global_commands' = Append(global_commands, cmd.id)
           /\ permanent_command_log' = w.log
           /\ entities' = w.entities
           /\ player' = [player EXCEPT !.last_shot_time = player.local_time]
    /\ UNCHANGED <<global_time, last_global_time, rewinding, was_rewinding_last_frame,
                   rewind_charges, active_timelines, current_timeline_id,
                   next_timeline_id, timers, frame, refunds, discarded, query, cursor>>

\* a shot, within the bounds
Shoot(mouse_x, bullet_id) ==
    /\ Len(permanent_command_log) < MaxLog
    /\ ShootBody(mouse_x, bullet_id)

\* ------------------------------------------------------------ frame: inputs
\* lines 210-236: the movement intent appends a path sample and a move command
MoveIntent(dir, dt) ==
    IF dir = 0
    THEN [path |-> player.path, log |-> permanent_command_log]
    ELSE LET got == get_pos(player.path, player.local_time)
             curr_pos == IF got = None THEN player.pos ELSE got
             next_pos == curr_pos + (dir * MoveSpeed * dt) \div TicksPerSecond
             t == player.local_time + dt
         IN  [path |-> Append(player.path, <<t, next_pos>>),
              log  |-> Append(permanent_command_log,
                              MoveCommand(NewId(permanent_command_log), next_pos, t,
                                          current_timeline_id))]

\* ------------------------------------------------------ frame: world.update
\* mutant: no floor at 0
AdvanceClockUnclamped(gt, dt, rew) == IF rew THEN gt - dt ELSE gt + dt

\* GameWorld.update, the clock
AdvanceClock(gt, dt, rew) == IF rew THEN Max(0, gt - dt) ELSE gt + dt

\* GameWorld.update, the loop over global_commands from position k on
RECURSIVE RunGlobalCommands(_, _, _, _, _, _, _)
RunGlobalCommands(gc, k, log, ents, gt, rew, forward_progress) ==
    IF k > Len(gc) THEN [log |-> log, entities |-> ents]
    ELSE LET i == IndexOf(log, gc[k])
             cmd == log[i]
             r == reverse(log, ents, i)
             e == execute(log, ents, i)
         IN  IF rew /\ cmd.executed /\ gt < cmd.scheduled_time
             THEN RunGlobalCommands(gc, k + 1, r.log, r.entities,
                                    gt, rew, forward_progress)
             ELSE IF forward_progress /\ ~cmd.executed /\ gt >= cmd.scheduled_time
             THEN RunGlobalCommands(gc, k + 1, e.log, e.entities,
                                    gt, rew, forward_progress)
             ELSE RunGlobalCommands(gc, k + 1, log, ents, gt, rew, forward_progress)

\* --------------------------------------------------- frame: entity updates
\* mutant: no floor at 0
TickLocalUnclamped(local_time, pos, dt, rew) ==
    IF rew THEN local_time - LocalDt(dt, pos) ELSE local_time + LocalDt(dt, pos)

\* TimeEntity.update, the clock part
TickLocal(local_time, pos, dt, rew) ==
    Max(IF rew THEN local_time - LocalDt(dt, pos) ELSE local_time + LocalDt(dt, pos), 0)

\* Player.update
UpdatePlayer(pl, path, dt, rew) ==
    LET pos == IF path = <<>> THEN pl.pos ELSE get_pos(path, pl.local_time)
    IN  [pl EXCEPT !.pos = pos, !.path = path,
                   !.local_time = TickLocal(pl.local_time, pos, dt, rew)]

\* Timer.update for a timer of local_time t at a place of factor f
UpdateTimer(t, f, dt, rew) ==
    LET d == (dt * f) \div FactorScale
    IN  Max(IF rew THEN t - d ELSE t + d, 0)

\* Bullet.update, GhostBullet.update, GhostPlayer.update
UpdateEntity(e, dt, gt, rew) ==
    IF e.kind = "Bullet"
    THEN LET lt == TickLocal(e.local_time, e.pos, dt, rew)
         IN  [e EXCEPT !.local_time = lt,
                       !.pos = BulletPos(e.pos0, e.velocity, e.max_lifetime, lt)]
    ELSE IF e.kind = "GhostBullet"
    THEN IF gt < e.spawn_time THEN e
         ELSE [e EXCEPT !.local_time = Max(0, gt - e.spawn_time)]
    ELSE IF e.kind = "GhostPlayer"
    THEN [e EXCEPT !.local_time = gt]
    ELSE e

\* is_obsolete
is_obsolete(e) == IsBullet(e) /\ e.local_time < 0

\* ------------------------------------------------ frame: branch evaluation
\* line 254
BranchTrigger(was, rew, charges) == was /\ ~rew /\ charges > 0

\* mutant: the scan ignores the rewind point
ScanMatchAnyTime(cmd, time_point, new_timeline_id, just_overwritten_timeline_id) ==
    /\ cmd.origin_timeline = just_overwritten_timeline_id
    /\ new_timeline_id \notin cmd.ghosted_timelines

\* mutant: the scan takes the command at the rewind point too (">=" for ">")
ScanMatchAtOrAfter(cmd, time_point, new_timeline_id, just_overwritten_timeline_id) ==
    /\ cmd.origin_timeline = just_overwritten_timeline_id
    /\ cmd.scheduled_time >= time_point
    /\ new_timeline_id \notin cmd.ghosted_timelines

\* mutant: the scan takes the future commands of every timeline
ScanMatchAnyOrigin(cmd, time_point, new_timeline_id, just_overwritten_timeline_id) ==
    /\ cmd.scheduled_time > time_point
    /\ new_timeline_id \notin cmd.ghosted_timelines

\* the scan condition of both prune functions
ScanMatch(cmd, time_point, new_timeline_id, just_overwritten_timeline_id) ==
    /\ cmd.origin_timeline = just_overwritten_timeline_id
    /\ cmd.scheduled_time > time_point
    /\ new_timeline_id \notin cmd.ghosted_timelines

\* prune_future_bullet_spawns
prune_future_bullet_spawns(log, ents, active, gc, gt, time_point, new_id, old_id) ==
    LET Hit(cmd) == IsShoot(cmd) /\ ScanMatch(cmd, time_point, new_id, old_id)
        hits == SelectSeq(log, Hit)
        ghosts == [i \in 1..Len(hits) |->
                     GhostBullet(hits[i].scheduled_time, hits[i].pos, hits[i].velocity,
                                 gt, GhostLifetime, new_id, 0)]
        Kept(id) == \A i \in 1..Len(hits) : hits[i].id # id
    IN  [log |-> [i \in 1..Len(log) |->
                    IF Hit(log[i])
                    THEN [log[i] EXCEPT !.ghosted_timelines = @ \cup {new_id}]
                    ELSE log[i]],
         entities |-> ents \o ghosts,
         active |-> IF hits = <<>> THEN active
                    ELSE SetCount(active, new_id, Count(active, new_id) + Len(hits)),
         global_commands |-> SelectSeq(gc, Kept),
         ghosted |-> {hits[i].id : i \in 1..Len(hits)},
         ghosts_created |-> hits # <<>>]

\* prune_future_player_moves
prune_future_player_moves(log, ents, active, time_point, new_id, old_id) ==
    LET Hit(cmd) == IsMove(cmd) /\ ScanMatch(cmd, time_point, new_id, old_id)
        hits == SelectSeq(log, Hit)
        ghost_path == [i \in 1..Len(hits) |-> <<hits[i].scheduled_time, hits[i].pos>>]
    IN  [log |-> [i \in 1..Len(log) |->
                    IF Hit(log[i])
                    THEN [log[i] EXCEPT !.ghosted_timelines = @ \cup {new_id}]
                    ELSE log[i]],
         entities |-> IF ghost_path # <<>>
                      THEN Append(ents, GhostPlayer(ghost_path, new_id)) ELSE ents,
         active |-> IF ghost_path # <<>>
                    THEN SetCount(active, new_id, Count(active, new_id) + 1) ELSE active,
         ghosts_created |-> ghost_path # <<>>]

\* mutant: the filter drops the future move commands of every timeline
FilterLogAnyOrigin(log, cur, local_time) ==
    LET Keep(cmd) == ~(IsMove(cmd) /\ cmd.scheduled_time > local_time)
    IN  SelectSeq(log, Keep)

\* lines 277-284: the post-commit filter of the permanent log
FilterLog(log, cur, local_time) ==
    LET Keep(cmd) == ~(IsMove(cmd) /\ cmd.origin_timeline = cur
                       /\ cmd.scheduled_time > local_time)
    IN  SelectSeq(log, Keep)

\* mutant: the path is left as it is
TruncatePathKeepAll(path, local_time, pos) == path

\* lines 291-298: truncate the player's path, re-seed it when it becomes empty
TruncatePath(path, local_time, pos) ==
    LET Keep(step) == step[1] <= local_time
        kept == SelectSeq(path, Keep)
    IN  IF kept = <<>> THEN <<<<local_time, pos>>>> ELSE kept

\* mutant: the second result overwrites the first ("=" for "|=")
GhostsCreatedMovesOnly(bullets_created, moves_created) == moves_created

\* mutant: the two results combined with "and"
GhostsCreatedBoth(bullets_created, moves_created) == bullets_created /\ moves_created

\* lines 259-269: ghosts_created |= prune_...()
GhostsCreated(bullets_created, moves_created) == bullets_created \/ moves_created

\* mutant: a discarded candidate id is used up
BranchEvaluationBurnId(w) ==
    LET prev_timeline_id == w.current_timeline_id
        temp_timeline_id == w.next_timeline_id
        time_point == w.player.local_time
        b == prune_future_bullet_spawns(w.log, w.entities, w.active, w.global_commands,
                                        w.global_time, time_point,
                                        temp_timeline_id, prev_timeline_id)
        m == prune_future_player_moves(b.log, b.entities, b.active, time_point,
                                       temp_timeline_id, prev_timeline_id)
        ghosts_created == GhostsCreated(b.ghosts_created, m.ghosts_created)
        scanned == [w EXCEPT !.log = m.log, !.entities = m.entities,
                             !.active = m.active,
                             !.global_commands = b.global_commands,
                             !.ghosted = b.ghosted]
    IN  IF ghosts_created
        THEN [scanned EXCEPT
                !.current_timeline_id = temp_timeline_id,
                !.next_timeline_id = w.next_timeline_id + 1,
                !.rewind_charges = w.rewind_charges - 1,
                !.log = FilterLog(m.log, temp_timeline_id, time_point),
                !.player.path = TruncatePath(w.player.path, time_point, w.player.pos)]
        ELSE [scanned EXCEPT !.active = DelCount(m.active, temp_timeline_id),
                             !.next_timeline_id = w.next_timeline_id + 1]

\* lines 253-302: w is the world after the entity updates
BranchEvaluation(w) ==
    LET prev_timeline_id == w.current_timeline_id
        temp_timeline_id == w.next_timeline_id
        time_point == w.player.local_time
        b == prune_future_bullet_spawns(w.log, w.entities, w.active, w.global_commands,
                                        w.global_time, time_point,
                                        temp_timeline_id, prev_timeline_id)
        m == prune_future_player_moves(b.log, b.entities, b.active, time_point,
                                       temp_timeline_id, prev_timeline_id)
        ghosts_created == GhostsCreated(b.ghosts_created, m.ghosts_created)
        scanned == [w EXCEPT !.log = m.log, !.entities = m.entities,
                             !.active = m.active,
                             !.global_commands = b.global_commands,
                             !.ghosted = b.ghosted]
    IN  IF ghosts_created
        THEN [scanned EXCEPT
                !.current_timeline_id = temp_timeline_id,
                !.next_timeline_id = w.next_timeline_id + 1,
                !.rewind_charges = w.rewind_charges - 1,
                !.log = FilterLog(m.log, temp_timeline_id, time_point),
                !.player.path = TruncatePath(w.player.path, time_point, w.player.pos)]
        ELSE [scanned EXCEPT !.active = DelCount(m.active, temp_timeline_id)]

\* --------------------------------------------------- frame: ghost retirement
\* lines 309-314 (every ghost path is non-empty)
EndTime(e) ==
    IF e.kind = "GhostBullet" THEN e.spawn_time + e.max_lifetime
    ELSE e.path[Len(e.path)][1]

\* line 315
Expired(e, gt) == IsGhost(e) /\ gt > EndTime(e)

\* mutant: every expired ghost refunds a charge, unclamped
RetireGhostEach(r, e) ==
    LET tid == e.timeline_id
        n == Count(r.active, tid) - 1
    IN  [r EXCEPT !.active = IF n = 0 THEN DelCount(r.active, tid)
                             ELSE SetCount(r.active, tid, n),
                  !.rewind_charges = r.rewind_charges + 1,
                  !.refunded = @ \cup {tid},
                  !.refunds = SetCount(@, tid, Count(@, tid) + 1)]

\* mutant: the refund test is "<= 0"
RetireGhostAtOrBelowZero(r, e) ==
    LET tid == e.timeline_id
        n == Count(r.active, tid) - 1
    IN  IF n <= 0
        THEN [r EXCEPT !.active = DelCount(r.active, tid),
                       !.rewind_charges = Min(r.rewind_charges + 1, MAX_REWINDS),
                       !.refunded = @ \cup {tid},
                       !.refunds = SetCount(@, tid, Count(@, tid) + 1)]
        ELSE [r EXCEPT !.active = SetCount(r.active, tid, n)]

\* lines 316-322: r holds the entities kept so far, the counters, the charges
\* and the refunds made
RetireGhost(r, e) ==
    LET tid == e.timeline_id
        n == Count(r.active, tid) - 1
    IN  IF n = 0
        THEN [r EXCEPT !.active = DelCount(r.active, tid),
                       !.rewind_charges = Min(r.rewind_charges + 1, MAX_REWINDS),
                       !.refunded = @ \cup {tid},
                       !.refunds = SetCount(@, tid, Count(@, tid) + 1)]
        ELSE [r EXCEPT !.active = SetCount(r.active, tid, n)]

\* lines 307-322, over the snapshot list(world.entities) from position k on
RECURSIVE Retire(_, _, _, _)
Retire(ents, k, gt, r) ==
    IF k > Len(ents) THEN r
    ELSE IF Expired(ents[k], gt)
         THEN Retire(ents, k + 1, gt, RetireGhost(r, ents[k]))
         ELSE Retire(ents, k + 1, gt, [r EXCEPT !.entities = Append(@, ents[k])])

\* ------------------------------------------- frame: path-ghost reconciliation
\* stable insertion of a sample by time
RECURSIVE InsertSample(_, _)
InsertSample(sorted, x) ==
    IF sorted = <<>> THEN <<x>>
    ELSE IF x[1] < sorted[1][1] \/ (x[1] = sorted[1][1] /\ x[2] < sorted[1][2])
         THEN <<x>> \o sorted
         ELSE <<sorted[1]>> \o InsertSample(Tail(sorted), x)

RECURSIVE SortPath(_)
SortPath(path) ==
    IF path = <<>> THEN <<>>
    ELSE InsertSample(SortPath(SubSeq(path, 1, Len(path) - 1)), path[Len(path)])

\* lines 326-331: the ghosted move commands of a timeline, in log order
TimelinePath(log, timeline_id) ==
    LET Hit(cmd) == IsMove(cmd) /\ timeline_id \in cmd.ghosted_timelines
        hits == SelectSeq(log, Hit)
    IN  [i \in 1..Len(hits) |-> <<hits[i].scheduled_time, hits[i].pos>>]

\* line 334: path.sort() compares the positions of two samples of equal time,
\* and pygame.Vector2 has no ordering: TypeError
SortRaises(path) ==
    \E i, j \in 1..Len(path) : path[i][1] = path[j][1] /\ path[i][2] # path[j][2]

\* lines 337 and 360
InWindow(start_time, end_time, gt) == start_time <= gt /\ gt < end_time

\* mutant: the presence test looks for the wrong entity class
PathGhostPresentWrongKind(ents, timeline_id) ==
    \E i \in 1..Len(ents) : ents[i].kind = "GhostBullet" /\ ents[i].timeline_id = timeline_id

\* lines 339-342
PathGhostPresent(ents, timeline_id) ==
    \E i \in 1..Len(ents) : ents[i].kind = "GhostPlayer" /\ ents[i].timeline_id = timeline_id

\* lines 325-351 for one timeline id
ReconcilePath(ents, log, gt, timeline_id) ==
    LET path == SortPath(TimelinePath(log, timeline_id))
        NotThis(e) == ~(e.kind = "GhostPlayer" /\ e.timeline_id = timeline_id)
    IN  IF path = <<>> THEN ents
        ELSE IF InWindow(path[1][1], path[Len(path)][1], gt)
             THEN IF PathGhostPresent(ents, timeline_id) THEN ents
                  ELSE Append(ents, GhostPlayer(path, timeline_id))
             ELSE SelectSeq(ents, NotThis)

\* line 324: for timeline_id in range(world.next_timeline_id)
RECURSIVE ReconcilePaths(_, _, _, _, _)
ReconcilePaths(ents, log, gt, timeline_id, next_id) ==
    IF timeline_id >= next_id THEN ents
    ELSE ReconcilePaths(ReconcilePath(ents, log, gt, timeline_id), log, gt,
                        timeline_id + 1, next_id)

\* ---------------------------------------- frame: one-shot ghost reconciliation
\* lines 362-365
GhostPresent(ents, cmd, tid) ==
    \E i \in 1..Len(ents) : ents[i].cmd_ref = cmd.id /\ ents[i].timeline_id = tid

\* lines 358-377 for one (command, timeline id) pair
ReconcileShot(ents, cmd, gt, tid) ==
    LET spawn == cmd.scheduled_time
        end == spawn + GhostLifetime
        NotThis(e) == ~(e.cmd_ref = cmd.id /\ e.timeline_id = tid)
    IN  IF InWindow(spawn, end, gt)
        THEN IF GhostPresent(ents, cmd, tid) THEN ents
             ELSE Append(ents, GhostBullet(spawn, cmd.pos, cmd.velocity, gt,
                                           GhostLifetime, tid, cmd.id))
        ELSE SelectSeq(ents, NotThis)

\* line 357: for tid in cmd.ghosted_timelines
RECURSIVE ReconcileShotTimelines(_, _, _, _, _)
ReconcileShotTimelines(ents, cmd, gt, tids, k) ==
    IF k > Len(tids) THEN ents
    ELSE ReconcileShotTimelines(ReconcileShot(ents, cmd, gt, tids[k]), cmd, gt, tids, k + 1)

\* lines 354-377: for cmd in world.permanent_command_log, from position k on
RECURSIVE ReconcileShots(_, _, _, _)
ReconcileShots(ents, log, gt, k) ==
    IF k > Len(log) THEN ents
    ELSE IF ~IsShoot(log[k]) THEN ReconcileShots(ents, log, gt, k + 1)
         ELSE ReconcileShots(
                  ReconcileShotTimelines(ents, log[k], gt,
                                         SeqOfSet(log[k].ghosted_timelines), 1),
                  log, gt, k + 1)

\* ------------------------------------------------------------------ the frame
\* the world after lines 203-251: movement intent, world.update, entity updates
Updated(dir, dt) ==
    LET mv == MoveIntent(dir, dt)
        gt == AdvanceClock(global_time, dt, rewinding)
        lgt == IF gt = 0 THEN 0 ELSE last_global_time
        forward_progress == ~rewinding /\ gt > lgt
        g == RunGlobalCommands(global_commands, 1, mv.log, entities, gt, rewinding,
                               forward_progress)
        ents == [i \in 1..Len(g.entities) |-> UpdateEntity(g.entities[i], dt, gt, rewinding)]
        Alive(e) == ~is_obsolete(e)
    IN  [global_time |-> gt,
         player |-> UpdatePlayer(player, mv.path, dt, rewinding),
         timers |-> [f \in TimerClasses |-> UpdateTimer(timers[f], f, dt, rewinding)],
         log |-> g.log,
         entities |-> IF rewinding THEN ents ELSE SelectSeq(ents, Alive),
         global_commands |-> global_commands,
         active |-> active_timelines,
         current_timeline_id |-> current_timeline_id,
         next_timeline_id |-> next_timeline_id,
         rewind_charges |-> rewind_charges,
         ghosted |-> {}]

\* does a command of the overwritten timeline lie in the player's future?
FutureCmds(w) ==
    \E i \in 1..Len(w.log) :
        /\ w.log[i].origin_timeline = w.current_timeline_id
        /\ w.log[i].scheduled_time > w.player.local_time

BookOf(w) == Book(w.current_timeline_id, w.next_timeline_id, w.rewind_charges, w.active)

\* one iteration of the game loop after the event handlers (lines 203-377);
\* u, b, r, ents are the world after the updates, the branch evaluation, the
\* retirement and the reconciliation
FrameBody(dir, dt) ==
    /\ \E u \in {Updated(dir, dt)} :
       \E branch_ran \in {BranchTrigger(was_rewinding_last_frame, rewinding, rewind_charges)} :
       \E b \in {IF branch_ran THEN BranchEvaluation(u) ELSE u} :
       \E r \in {Retire(b.entities, 1, b.global_time,
                       [entities |-> <<>>, active |-> b.active,
                        rewind_charges |-> b.rewind_charges, refunded |-> {},
                        refunds |-> refunds])} :
       \E ents \in {ReconcileShots(
                       ReconcilePaths(r.entities, b.log, b.global_time, 0,
                                      b.next_timeline_id),
                       b.log, b.global_time, 1)} :
           /\ \A tid \in 0..(b.next_timeline_id - 1) : ~SortRaises(TimelinePath(b.log, tid))
           /\ \A tid \in DOMAIN r.active : r.active[tid] + MaxDebt >= 0
           /\ global_time' = b.global_time
           /\ last_global_time' = b.global_time
           /\ was_rewinding_last_frame' = rewinding
           /\ rewind_charges' = r.rewind_charges
           /\ active_timelines' = r.active
           /\ current_timeline_id' = b.current_timeline_id
           /\ next_timeline_id' = b.next_timeline_id
           /\ player' = b.player
           /\ timers' = u.timers
           /\ entities' = ents
           /\ global_commands' = b.global_commands
           /\ permanent_command_log' = b.log
           /\ frame' = IF branch_ran
                        THEN [branch_ran |-> TRUE,
                              ghosts_made |-> Len(b.entities) - Len(u.entities),
                              future_cmds |-> FutureCmds(u),
                              time_point |-> u.player.local_time,
                              pre |-> BookOf(u), post |-> BookOf(b),
                              ghosted |-> b.ghosted, refunded |-> r.refunded]
                        ELSE [NoFrame EXCEPT !.refunded = r.refunded]
           /\ refunds' = r.refunds
           /\ discarded' = IF /\ discarded # NoRecord
                               /\ branch_ran
                               /\ b.next_timeline_id = u.next_timeline_id
                            THEN discarded \cup {u.next_timeline_id}
                            ELSE discarded
    /\ UNCHANGED <<rewinding, query, cursor>>

\* a frame of the game loop, within the bounds
Frame(dir, dt) ==
    /\ rewinding \/ global_time + dt <= MaxTime
    /\ dir # 0 => Len(permanent_command_log) < MaxLog
    /\ FrameBody(dir, dt)

Next ==
    \/ ToggleRewind
    \/ \E mouse_x \in MouseXs, bullet_id \in BulletIds : Shoot(mouse_x, bullet_id)
    \/ \E dir \in MoveDirs, dt \in DTs : Frame(dir, dt)

Spec == Init /\ [][Next]_vars

\* the game loop (line 185) never stops by itself: while a step is possible,
\* one is taken
FairSpec == Spec /\ WF_vars(Next)

\* ------------------------------------ sessions that record the discards
\* the game as in Spec, with the candidate id of every discarded branch
\* evaluation (lines 299-302) recorded in discarded
InitRecord ==
    /\ InitWorld
    /\ discarded = {}
    /\ query = NoQuery
    /\ cursor = NoCursor

SpecRecord == InitRecord /\ [][Next]_vars

\* ------------------------------------------------- keyboard-only sessions
\* the game played with the r key and the d key only (no mouse, no a key),
\* which leaves room for more move commands
KeyDirs == {0, 1}

MoveFrame(dir, dt) ==
    /\ rewinding \/ global_time + dt <= MaxTime
    /\ dir # 0 => Len(permanent_command_log) < MaxMoves
    /\ FrameBody(dir, dt)

NextKeys ==
    \/ ToggleRewind
    \/ \E dir \in KeyDirs, dt \in DTs : MoveFrame(dir, dt)

SpecKeys == Init /\ [][NextKeys]_vars

\* ---------------------------------------------------- mouse-only sessions
\* the game played with the r key and the mouse only (no movement key), which
\* leaves room for more shoot commands
MouseShoot(mouse_x, bullet_id) ==
    /\ Len(permanent_command_log) < MaxShots
    /\ ShootBody(mouse_x, bullet_id)

NextMouse ==
    \/ ToggleRewind
    \/ \E mouse_x \in MouseXs, bullet_id \in BulletIds : MouseShoot(mouse_x, bullet_id)
    \/ \E dt \in DTs : Frame(0, dt)

SpecMouse == Init /\ [][NextMouse]_vars

\* ------------------------------------------------------ sessions with a lag
\* clock.tick(144) returns the time the last frame really took, so a frame may
\* last any time: keyboard-only sessions in which a frame takes 1.5 s or 3 s
LagDTs == {150, 300}

LagFrame(dir, dt) ==
    /\ rewinding \/ global_time + dt <= MaxTime
    /\ dir # 0 => Len(permanent_command_log) < MaxLagMoves
    /\ FrameBody(dir, dt)

NextLag ==
    \/ ToggleRewind
    \/ \E dir \in KeyDirs, dt \in LagDTs : LagFrame(dir, dt)

SpecLag == Init /\ [][NextLag]_vars

\* ------------------------------------------------------- get_pos on its own
\* a MovementComponent with any path of up to MaxPathLen samples, in any order
\* of times, queried once
SamplePositions == {100, 130}
Samples == (0..MaxSampleTime) \X SamplePositions
Paths == UNION {[1..n -> Samples] : n \in 0..MaxPathLen}
QueryTimes == (0 - 1)..(MaxSampleTime + 1)

InitQuery ==
    /\ InitWorld
    /\ discarded = NoRecord
    /\ \E path \in Paths, q \in QueryTimes :
          query = [path |-> path, time |-> q, result |-> 0, done |-> FALSE]
    /\ cursor = NoCursor

\* result = movement.get_pos(query_time)
QueryPos ==
    /\ ~query.done
    /\ query' = [query EXCEPT !.result = get_pos(query.path, query.time),
                              !.done = TRUE]
    /\ UNCHANGED <<global_time, last_global_time, rewinding, was_rewinding_last_frame,
                   rewind_charges, active_timelines, current_timeline_id,
                   next_timeline_id, player, timers, entities, global_commands,
                   permanent_command_log, frame, refunds, discarded, cursor>>

NextQuery == QueryPos

SpecGetPos == InitQuery /\ [][NextQuery]_vars

\* ------------------------------------------- a command cursor on its own
\* a TimeEntity at the field centre whose command_queue is filled by
\* queue_command in the order of scheduled_time, updated forward and rewinding
\* as the game loop updates the player, its queue truncated as a commit does
QueueTimes == 0..MaxQueueTime
CursorDTs == {1, 2}

\* mutant: the command due exactly now is not executed (">" for ">=")
RECURSIVE CursorForwardStrict(_, _, _, _)
CursorForwardStrict(queue, index, local_time, rew) ==
    IF index < Len(queue) /\ ~rew /\ local_time > queue[index + 1].scheduled_time
    THEN CursorForwardStrict([queue EXCEPT ![index + 1].executed = TRUE], index + 1,
                             local_time, rew)
    ELSE [command_queue |-> queue, command_index |-> index]

\* TimeEntity.update, lines 91-97: execute the due commands at the cursor
RECURSIVE CursorForward(_, _, _, _)
CursorForward(queue, index, local_time, rew) ==
    IF index < Len(queue) /\ ~rew /\ local_time >= queue[index + 1].scheduled_time
    THEN CursorForward([queue EXCEPT ![index + 1].executed = TRUE], index + 1,
                       local_time, rew)
    ELSE [command_queue |-> queue, command_index |-> index]

\* TimeEntity.update, lines 99-105: reverse the commands behind the cursor that
\* are no longer due
RECURSIVE CursorBackward(_, _, _, _)
CursorBackward(queue, index, local_time, rew) ==
    IF index > 0 /\ rew /\ local_time < queue[index].scheduled_time
    THEN CursorBackward([queue EXCEPT ![index].executed = FALSE], index - 1,
                        local_time, rew)
    ELSE [command_queue |-> queue, command_index |-> index]

\* TimeEntity.update
UpdateQueued(c, dt, rew) ==
    LET lt == TickLocal(c.local_time, CenterX, dt, rew)
        f == CursorForward(c.command_queue, c.command_index, lt, rew)
        b == CursorBackward(f.command_queue, f.command_index, lt, rew)
    IN  [c EXCEPT !.local_time = lt, !.command_queue = b.command_queue,
                  !.command_index = b.command_index,
                  !.after = IF rew THEN "rewind" ELSE "forward", !.cut = 0]

\* lines 286-289: the post-commit truncation of the command queue
TruncateQueue(c) ==
    LET Keep(cmd) == cmd.scheduled_time <= c.local_time
        kept == SelectSeq(c.command_queue, Keep)
    IN  [c EXCEPT !.command_queue = kept, !.after = "commit",
                  !.cut = Len(c.command_queue) - Len(kept)]

CursorUnchanged ==
    UNCHANGED <<global_time, last_global_time, rewinding, was_rewinding_last_frame,
                rewind_charges, active_timelines, current_timeline_id,
                next_timeline_id, player, timers, entities, global_commands,
                permanent_command_log, frame, refunds, discarded, query>>

\* TimeEntity.queue_command, with a command not scheduled before the last one
QueueCommand(scheduled_time) ==
    /\ Len(cursor.command_queue) < MaxQueue
    /\ cursor.command_queue # <<>> =>
           scheduled_time >= cursor.command_queue[Len(cursor.command_queue)].scheduled_time
    /\ cursor' = [cursor EXCEPT
                     !.command_queue = Append(@, [scheduled_time |-> scheduled_time,
                                                  executed |-> FALSE]),
                     !.after = "queue", !.cut = 0]
    /\ CursorUnchanged

\* entity.update(dt, global_time, rewinding) in a frame without a commit
UpdateCursor(dt, rew) ==
    /\ rew \/ cursor.local_time + dt <= MaxQueueTime + 1
    /\ cursor' = UpdateQueued(cursor, dt, rew)
    /\ CursorUnchanged

\* the resume frame of a committed branch: the forward update, then the
\* truncation
CommitCursor(dt) ==
    /\ cursor.after = "rewind"
    /\ cursor.local_time + dt <= MaxQueueTime + 1
    /\ cursor' = TruncateQueue(UpdateQueued(cursor, dt, FALSE))
    /\ CursorUnchanged

NextCursor ==
    \/ \E scheduled_time \in QueueTimes : QueueCommand(scheduled_time)
    \/ \E dt \in CursorDTs, rew \in BOOLEAN : UpdateCursor(dt, rew)
    \/ \E dt \in CursorDTs : CommitCursor(dt)

SpecCursor == Init /\ [][NextCursor]_vars

\* =================================================================== claims
\* ghost entities of the world
GhostIndices == {k \in 1..Len(entities) : IsGhost(entities[k])}

\* the ghost projectiles that replay a shoot command for a timeline: seeded
\* from the command's payload and tagged with the timeline id
ReplaysShot(e, cmd, tid) ==
    /\ e.kind = "GhostBullet"
    /\ e.timeline_id = tid
    /\ e.spawn_time = cmd.scheduled_time
    /\ e.velocity = cmd.velocity
    /\ e.pos0 = cmd.pos

ShotGhosts(cmd, tid) == {k \in 1..Len(entities) : ReplaysShot(entities[k], cmd, tid)}

ShootIndices == {i \in 1..Len(permanent_command_log) : IsShoot(permanent_command_log[i])}

\* the scheduled times of the move commands ghosted into a timeline
MoveTimes(tid) ==
    {permanent_command_log[i].scheduled_time :
        i \in {j \in 1..Len(permanent_command_log) :
                 /\ IsMove(permanent_command_log[j])
                 /\ tid \in permanent_command_log[j].ghosted_timelines}}

SetMin(S) == CHOOSE x \in S : \A y \in S : x <= y
SetMax(S) == CHOOSE x \in S : \A y \in S : x >= y

\* the instant a ghost entity's replay window closes
WindowEnd(e) ==
    IF e.kind = "GhostBullet" THEN e.spawn_time + e.max_lifetime
    ELSE SetMax({e.path[i][1] : i \in 1..Len(e.path)})

\* the last branch evaluation committed its candidate id
Committed ==
    /\ frame.post.current_timeline_id = frame.pre.next_timeline_id
    /\ frame.post.next_timeline_id = frame.pre.next_timeline_id + 1

\* C1: branch atomicity. In a frame whose branch evaluation ran, the candidate
\* is committed iff the evaluation created at least one ghost, the evaluation
\* takes exactly one charge iff it commits, and a discarded evaluation leaves
\* current_timeline_id, next_timeline_id, rewind_charges and active_timelines
\* as they were.
C1_BranchAtomicity ==
    frame.branch_ran =>
        /\ Committed <=> frame.ghosts_made >= 1
        /\ (frame.post.rewind_charges = frame.pre.rewind_charges - 1) <=> Committed
        /\ frame.post.rewind_charges \in
               {frame.pre.rewind_charges, frame.pre.rewind_charges - 1}
        /\ ~Committed => frame.post = frame.pre

C1_Witness == frame.branch_ran /\ frame.ghosts_made >= 1 /\ Committed

\* a committed timeline that still has a ghost whose replay window is open
StillActive(tid) ==
    /\ tid \in 1..(next_timeline_id - 1)
    /\ \E k \in GhostIndices :
          /\ entities[k].timeline_id = tid
          /\ global_time < WindowEnd(entities[k])

\* C2: charge conservation. In every reachable state rewind_charges plus the
\* number of committed timelines that still have a ghost with an open replay
\* window is at most MAX_REWINDS.
C2_ChargeConservation ==
    rewind_charges + Cardinality({tid \in 1..(next_timeline_id - 1) : StillActive(tid)})
        <= MAX_REWINDS

\* a command ghosted into tid whose replay window is still open
OpenWindow(tid) ==
    \/ \E i \in ShootIndices :
          /\ tid \in permanent_command_log[i].ghosted_timelines
          /\ global_time < permanent_command_log[i].scheduled_time + GhostLifetime
    \/ MoveTimes(tid) # {} /\ global_time < SetMax(MoveTimes(tid))

\* C3: a timeline's charge is refunded only when its last ghost's window has
\* closed: after a frame that refunded timeline tid, no ghost entity of tid is
\* in world.entities and no command ghosted into tid has an open window.
C3_RefundOnlyWhenLastGhostCloses ==
    \A tid \in frame.refunded :
        /\ \A k \in GhostIndices : entities[k].timeline_id # tid
        /\ ~OpenWindow(tid)

\* C4: one-shot ghost dedup. For every shoot command and timeline id at most
\* one GhostBullet in world.entities replays that command for that timeline.
C4_OneShotGhostDedup ==
    \A i \in ShootIndices : \A tid \in 0..(next_timeline_id - 1) :
        Cardinality(ShotGhosts(permanent_command_log[i], tid)) <= 1

PathGhosts(tid) ==
    {k \in 1..Len(entities) :
        entities[k].kind = "GhostPlayer" /\ entities[k].timeline_id = tid}

\* C5: path-ghost dedup. For every timeline id below next_timeline_id there is
\* at most one GhostPlayer with that id, and one is present exactly when
\* global_time lies in [start, end) of the timeline's ghosted move commands.
C5_PathGhostDedup ==
    \A tid \in 0..(next_timeline_id - 1) :
        /\ Cardinality(PathGhosts(tid)) <= 1
        /\ PathGhosts(tid) # {} <=>
               /\ MoveTimes(tid) # {}
               /\ SetMin(MoveTimes(tid)) <= global_time
               /\ global_time < SetMax(MoveTimes(tid))

C5_Witness == \E tid \in 1..(next_timeline_id - 1) : Cardinality(PathGhosts(tid)) = 1

\* C6: the charge pool stays in bounds, 0 <= rewind_charges <= MAX_REWINDS.
C6_ChargesInBounds == 0 <= rewind_charges /\ rewind_charges <= MAX_REWINDS

C6_Witness ==
    /\ frame.refunded # {}
    /\ rewind_charges = MAX_REWINDS
    /\ next_timeline_id > 1

\* C7: scenario C. After a resume frame that ghosted a shot, exactly one ghost
\* projectile for that shot and the newly committed id exists, carrying the
\* command's velocity and scheduled time, and rewind_charges is one less than
\* before the frame.
C7_ScenarioC ==
    (frame.branch_ran /\ frame.ghosted # {}) =>
        /\ \A i \in ShootIndices :
              permanent_command_log[i].id \in frame.ghosted =>
                  Cardinality(ShotGhosts(permanent_command_log[i],
                                         frame.pre.next_timeline_id)) = 1
        /\ rewind_charges = frame.pre.rewind_charges - 1

\* C8: scenario B. When the branch evaluation finds no command of the current
\* timeline scheduled after player.local_time, it creates no ghost and leaves
\* current_timeline_id, next_timeline_id and rewind_charges unchanged.
C8_ScenarioB ==
    (frame.branch_ran /\ ~frame.future_cmds) =>
        /\ frame.ghosts_made = 0
        /\ frame.post.current_timeline_id = frame.pre.current_timeline_id
        /\ frame.post.next_timeline_id = frame.pre.next_timeline_id
        /\ frame.post.rewind_charges = frame.pre.rewind_charges

C8_Witness ==
    /\ frame.branch_ran
    /\ ~frame.future_cmds
    /\ permanent_command_log # <<>>

\* C9: one-shot ghost window. A ghost projectile is in world.entities at the
\* end of a frame only while spawn <= global_time < spawn + lifetime.
C9_GhostOnlyInWindow ==
    \A k \in 1..Len(entities) :
        entities[k].kind = "GhostBullet" =>
            /\ entities[k].spawn_time <= global_time
            /\ global_time < entities[k].spawn_time + entities[k].max_lifetime

\* every replay window lies strictly in the past and no ghost is left
AllReplayed ==
    /\ GhostIndices = {}
    /\ \A i \in 1..Len(permanent_command_log) :
          \A tid \in permanent_command_log[i].ghosted_timelines :
              IF IsShoot(permanent_command_log[i])
              THEN global_time > permanent_command_log[i].scheduled_time + GhostLifetime
              ELSE global_time > SetMax(MoveTimes(tid))

\* C10: charge regeneration. Once the world only advances and every replay
\* window has closed, no further retirement can happen, so every charge must
\* have come back by then: rewind_charges = MAX_REWINDS and no timeline is
\* still counted.
C10_ChargesRegenerate ==
    (~rewinding /\ ~was_rewinding_last_frame /\ AllReplayed) =>
        /\ rewind_charges = MAX_REWINDS
        /\ \A tid \in DOMAIN active_timelines : active_timelines[tid] <= 0

\* C11: each committed timeline refunds at most one charge over the whole run,
\* also when its ghosts are re-spawned and expire again after its retirement,
\* and every refund is for a committed id (1 .. next_timeline_id - 1).
C11_OneRefundPerTimeline ==
    \A tid \in DOMAIN refunds :
        /\ refunds[tid] <= 1
        /\ tid \in 1..(next_timeline_id - 1)

\* a retired timeline whose ghost was re-spawned and expired again
C11_Witness ==
    \E tid \in DOMAIN refunds :
        /\ refunds[tid] = 1
        /\ Count(active_timelines, tid) < 0

\* a step that is an iteration of the game loop: the r key changes
\* world.rewinding and a shot extends world.global_commands, a frame does neither
IsFrameStep ==
    /\ rewinding' = rewinding
    /\ Len(global_commands') <= Len(global_commands)

\* C12: the branch protocol is never reached with zero charges. world.rewinding
\* switches from false to true only in a state with rewind_charges > 0; whenever
\* the last frame was rewinding and rewinding is now off, rewind_charges > 0;
\* and a frame runs the branch evaluation exactly when it is such a
\* rewind-to-resume frame.
C12_BranchNeverWithoutCharge ==
    /\ []((was_rewinding_last_frame /\ ~rewinding) => rewind_charges > 0)
    /\ [][/\ (~rewinding /\ rewinding') => rewind_charges > 0
          /\ IsFrameStep =>
                (frame'.branch_ran <=> (was_rewinding_last_frame /\ ~rewinding))]_vars

\* a resume frame whose branch evaluation spent the last charge
C12_Witness == frame.branch_ran /\ Committed /\ rewind_charges = 0

\* C13 as stated: some command of the permanent log gets two or more ids in
\* ghosted_timelines.
C13_MultiGhostReached ==
    <>(\E i \in 1..Len(permanent_command_log) :
           Cardinality(permanent_command_log[i].ghosted_timelines) >= 2)

\* C13 amended: a command is ghosted into at most one timeline id, an id
\* committed after its origin timeline.
C13_GhostedAtMostOnce ==
    \A i \in 1..Len(permanent_command_log) :
        /\ Cardinality(permanent_command_log[i].ghosted_timelines) <= 1
        /\ \A tid \in permanent_command_log[i].ghosted_timelines :
              /\ tid > permanent_command_log[i].origin_timeline
              /\ tid <= current_timeline_id

\* a later commit whose rewind point lies before a command that an earlier
\* commit had ghosted: the command is not ghosted again
C13_Witness ==
    /\ frame.branch_ran /\ Committed
    /\ \E i \in 1..Len(permanent_command_log) :
          /\ permanent_command_log[i].ghosted_timelines # {}
          /\ frame.post.current_timeline_id
                 \notin permanent_command_log[i].ghosted_timelines
          /\ permanent_command_log[i].scheduled_time > frame.time_point

\* C14: after every frame, forward or rewinding, every entity (the player, the
\* timers, the bullets, the ghost bullets and the ghost players) has
\* local_time >= 0.
C14_LocalTimeNonNegative ==
    /\ player.local_time >= 0
    /\ \A k \in 1..Len(TimerPositions) : timers[TimerFactors[k]] >= 0
    /\ \A k \in 1..Len(entities) : entities[k].local_time >= 0

\* a rewinding frame has updated a live bullet (it sits on its baked path, not
\* on its spawn point) and left its clock on the floor while the world's clock
\* is still above 0
C14_Witness ==
    /\ was_rewinding_last_frame
    /\ global_time > 0
    /\ \E k \in 1..Len(entities) :
          /\ entities[k].kind = "Bullet"
          /\ entities[k].local_time = 0
          /\ entities[k].pos # entities[k].pos0

\* C15: the global clock. global_time >= 0 in every reachable state; a frame
\* with rewinding false adds exactly its dt, a frame with rewinding true leaves
\* max(0, global_time - dt); nothing else moves the clock. So it never
\* increases while rewinding and never decreases while advancing.
C15_GlobalClock ==
    /\ [](global_time >= 0)
    /\ [][/\ (IsFrameStep /\ ~rewinding) =>
                \E dt \in DTs : global_time' = global_time + dt
          /\ (IsFrameStep /\ rewinding) =>
                \E dt \in DTs : global_time' = Max(0, global_time - dt)
          /\ ~IsFrameStep => global_time' = global_time
          /\ rewinding => global_time' <= global_time
          /\ ~rewinding => global_time' >= global_time]_vars

\* the clock has been rewound onto its floor after the game had advanced
C15_Witness ==
    /\ was_rewinding_last_frame
    /\ rewinding
    /\ global_time = 0
    /\ player.local_time > 0

\* the world a command acts on, after execute() or reverse() of the command
\* at position i of the log
AfterExecute(i) == execute(permanent_command_log, entities, i)
AfterReverse(i) == reverse(permanent_command_log, entities, i)
World == [log |-> permanent_command_log, entities |-> entities]

\* C16: command idempotence. execute() on an executed command and reverse()
\* on an unexecuted one change neither the world nor the flag; execute() on an
\* unexecuted command applies shoot_bullet once and sets executed, reverse()
\* on an executed one applies undo_bullet once and clears executed; no other
\* command is touched.
C16_CommandIdempotence ==
    \A i \in ShootIndices :
        LET cmd == permanent_command_log[i]
        IN  /\ cmd.executed => AfterExecute(i) = World
            /\ ~cmd.executed => AfterReverse(i) = World
            /\ ~cmd.executed =>
                  /\ AfterExecute(i).entities = shoot_bullet(entities, cmd)
                  /\ AfterExecute(i).log =
                         [permanent_command_log EXCEPT ![i].executed = TRUE]
            /\ cmd.executed =>
                  /\ AfterReverse(i).entities = undo_bullet(entities, cmd.bullet_id)
                  /\ AfterReverse(i).log =
                         [permanent_command_log EXCEPT ![i].executed = FALSE]

\* the world holds a shot that is executed, with its bullet alive, and a shot
\* that a rewind has reversed
C16_Witness ==
    /\ \E i \in ShootIndices :
          /\ permanent_command_log[i].executed
          /\ \E k \in 1..Len(entities) :
                /\ entities[k].kind = "Bullet"
                /\ entities[k].bullet_id = permanent_command_log[i].bullet_id
    /\ \E i \in ShootIndices : ~permanent_command_log[i].executed

\* C17: round trip of a spawn command. For every reachable world and every
\* shoot command that is not executed, execute() followed by reverse() leaves
\* world.entities (and the log) as they were before the execute(), also when
\* another live bullet with an equal bullet_id is present.
C17_SpawnRoundTrip ==
    \A i \in ShootIndices :
        ~permanent_command_log[i].executed =>
            LET e == AfterExecute(i)
                r == reverse(e.log, e.entities, i)
            IN  r = World

StrictlyIncreasing(path) ==
    \A k \in 1..(Len(path) - 1) : path[k][1] < path[k + 1][1]

\* C18: movement path ordering. In every reachable state the samples of the
\* player's movement path, and of every ghost path built from move commands,
\* are strictly increasing in time.
C18_PathStrictlyIncreasing ==
    /\ StrictlyIncreasing(player.path)
    /\ \A k \in 1..Len(entities) :
          entities[k].kind = "GhostPlayer" => StrictlyIncreasing(entities[k].path)

\* C19: path interpolation. On an empty path get_pos returns None. On a path
\* whose sample times strictly increase, get_pos at a sample's time returns
\* that sample's position, before the first sample the first position and
\* after the last sample the last position.
C19_PathInterpolation ==
    query.done =>
        LET path == query.path
            n == Len(path)
        IN  /\ path = <<>> => query.result = None
            /\ (path # <<>> /\ StrictlyIncreasing(path)) =>
                  /\ \A k \in 1..n :
                        query.time = path[k][1] => query.result = path[k][2]
                  /\ query.time < path[1][1] => query.result = path[1][2]
                  /\ query.time > path[n][1] => query.result = path[n][2]

\* a query at the time of an inner sample of an increasing path whose
\* neighbours lie elsewhere
C19_Witness ==
    /\ query.done
    /\ Len(query.path) = 3
    /\ StrictlyIncreasing(query.path)
    /\ query.time = query.path[2][1]
    /\ query.path[1][2] # query.path[2][2]
    /\ query.path[3][2] # query.path[2][2]

\* C20: the permanent command log is append-only. No step, the post-commit
\* filter included, removes or reorders an entry, and an entry's
\* origin_timeline (like its identity, kind, time and payload) never changes.
C20_LogAppendOnly ==
    [][/\ Len(permanent_command_log') >= Len(permanent_command_log)
       /\ \A i \in 1..Len(permanent_command_log) :
             LET old == permanent_command_log[i]
                 new == permanent_command_log'[i]
             IN  /\ new.id = old.id
                 /\ new.origin_timeline = old.origin_timeline
                 /\ new.type = old.type
                 /\ new.scheduled_time = old.scheduled_time
                 /\ new.pos = old.pos
                 /\ new.velocity = old.velocity
                 /\ new.bullet_id = old.bullet_id]_vars

\* a commit has run its filter over a log that holds a move command scheduled
\* after the rewind point
C20_Witness ==
    /\ frame.branch_ran /\ Committed
    /\ \E i \in 1..Len(permanent_command_log) :
          /\ IsMove(permanent_command_log[i])
          /\ permanent_command_log[i].scheduled_time > frame.time_point

\* the dilation factor at the place of a live entity
FactorAt(pos) == get_time_factor(pos)

\* C21: local time never fully freezes. The dilation factor is in (0, 1] at
\* the place of every live entity (the player, the timers, the bullets), at any
\* distance from the field centre, so a forward frame with dt > 0 strictly
\* increases the player's local_time and no timer stands still.
C21_LocalTimeNeverFreezes ==
    /\ [](/\ 0 < FactorAt(player.pos) /\ FactorAt(player.pos) <= FactorScale
          /\ \A f \in TimerClasses : 0 < f /\ f <= FactorScale
          /\ \A k \in 1..Len(entities) :
                entities[k].kind = "Bullet" =>
                    /\ 0 < FactorAt(entities[k].pos)
                    /\ FactorAt(entities[k].pos) <= FactorScale)
    /\ [][(IsFrameStep /\ ~rewinding) => player.local_time' > player.local_time]_vars

\* C22: a discarded candidate id is never used again. An id whose branch
\* evaluation produced no ghost never becomes current_timeline_id later, is in
\* no command's ghosted_timelines, tags no ghost entity and has no
\* active_timelines entry.
C22_DiscardedIdNeverReused ==
    \A tid \in discarded :
        /\ tid # current_timeline_id
        /\ \A i \in 1..Len(permanent_command_log) :
              tid \notin permanent_command_log[i].ghosted_timelines
        /\ \A k \in GhostIndices : entities[k].timeline_id # tid
        /\ tid \notin DOMAIN active_timelines

\* the ids that commands, ghost entities and active_timelines refer to
IdsInUse ==
    UNION {permanent_command_log[i].ghosted_timelines : i \in 1..Len(permanent_command_log)}
        \cup {entities[k].timeline_id : k \in GhostIndices}
        \cup DOMAIN active_timelines

\* C23: no partially-committed state is visible across frame boundaries. Every
\* id in a command's ghosted_timelines, every ghost entity's timeline_id and
\* every key of active_timelines is a committed id: 1 <= id < next_timeline_id
\* and id <= current_timeline_id.
C23_OnlyCommittedIds ==
    \A tid \in IdsInUse :
        /\ 1 <= tid
        /\ tid < next_timeline_id
        /\ tid <= current_timeline_id

\* a discarded evaluation after an earlier commit whose ghost is still there
C23_Witness ==
    /\ frame.branch_ran /\ ~Committed
    /\ current_timeline_id >= 1
    /\ GhostIndices # {}
    /\ DOMAIN active_timelines # {}

\* C24: branch scan exactness. In a frame whose branch evaluation runs with
\* prev = current_timeline_id and candidate = next_timeline_id, the commands
\* that get candidate added to ghosted_timelines are exactly the (shoot and
\* move) commands of the log with origin_timeline = prev, scheduled_time >
\* player.local_time and candidate not yet in ghosted_timelines; every other
\* command's ghosted_timelines is unchanged, as is every command's in any
\* other step.
C24_BranchScanExact ==
    [][\A i \in 1..Len(permanent_command_log') :
          LET cmd == permanent_command_log'[i]
              before == IF i <= Len(permanent_command_log)
                        THEN permanent_command_log[i].ghosted_timelines ELSE {}
              scanned == /\ IsFrameStep
                         /\ frame'.branch_ran
                         /\ IsShoot(cmd) \/ IsMove(cmd)
                         /\ cmd.origin_timeline = current_timeline_id
                         /\ cmd.scheduled_time > player'.local_time
                         /\ next_timeline_id \notin before
          IN  cmd.ghosted_timelines =
                  IF scanned THEN before \cup {next_timeline_id} ELSE before]_vars

\* a committing evaluation that ghosted one command and passed over another
\* command of the overwritten timeline, one not after the rewind point
C24_Witness ==
    /\ frame.branch_ran /\ Committed
    /\ \E i, j \in 1..Len(permanent_command_log) :
          /\ current_timeline_id \in permanent_command_log[i].ghosted_timelines
          /\ permanent_command_log[j].origin_timeline = frame.pre.current_timeline_id
          /\ permanent_command_log[j].scheduled_time <= frame.time_point
          /\ permanent_command_log[j].ghosted_timelines = {}

\* the ids in a sequence of command ids
IdSet(gc) == {gc[k] : k \in 1..Len(gc)}

\* the scheduled time of the command object id
ScheduledTime(log, id) == log[IndexOf(log, id)].scheduled_time

\* C25: no leftover future after a commit. At the end of a frame that
\* committed a branch, world.global_commands holds no command with
\* scheduled_time > player.local_time, whatever its origin_timeline, and every
\* command the frame took out of world.global_commands is still in the
\* permanent log.
C25_NoLeftoverFuture ==
    [][(/\ IsFrameStep
        /\ frame'.branch_ran
        /\ frame'.post.current_timeline_id = frame'.pre.next_timeline_id) =>
            /\ \A id \in IdSet(global_commands') :
                  ScheduledTime(permanent_command_log', id) <= player'.local_time
            /\ \A id \in IdSet(global_commands) \ IdSet(global_commands') :
                  IndexOf(permanent_command_log', id) # 0]_vars

\* a live bullet that can only be the one shoot_bullet made for the command
\* at position i of the log: it carries the command's bullet_id, start and
\* velocity, and no other shoot command has that bullet_id
SpawnedBy(e, log, i) ==
    /\ e.kind = "Bullet"
    /\ e.bullet_id = log[i].bullet_id
    /\ e.pos0 = log[i].pos
    /\ e.velocity = log[i].velocity
    /\ \A j \in 1..Len(log) :
          (j # i /\ IsShoot(log[j])) => log[j].bullet_id # log[i].bullet_id

\* C26: after a commit, every shoot command ghosted in that commit is undone
\* in the live world: at the end of the committing frame its executed flag is
\* false and no live Bullet spawned by it is in world.entities.
C26_GhostedShotsUndone ==
    [][(/\ IsFrameStep
        /\ frame'.branch_ran
        /\ frame'.post.current_timeline_id = frame'.pre.next_timeline_id) =>
            \A i \in 1..Len(permanent_command_log') :
                permanent_command_log'[i].id \in frame'.ghosted =>
                    /\ ~permanent_command_log'[i].executed
                    /\ \A k \in 1..Len(entities') :
                          ~SpawnedBy(entities'[k], permanent_command_log', i)]_vars

\* C27: cursor protocol. For an entity whose command_queue is sorted by
\* scheduled_time: 0 <= command_index <= len(command_queue), exactly the
\* commands below command_index are executed, after a forward update a queued
\* command is executed iff scheduled_time <= local_time, after a rewinding
\* update no command with scheduled_time > local_time is executed, and the
\* post-commit truncation keeps command_index within the queue.
C27_CursorProtocol ==
    LET queue == cursor.command_queue
    IN  /\ 0 <= cursor.command_index
        /\ cursor.command_index <= Len(queue)
        /\ \A k \in 1..Len(queue) : queue[k].executed <=> k <= cursor.command_index
        /\ cursor.after \in {"forward", "commit"} =>
               \A k \in 1..Len(queue) :
                   queue[k].executed <=> queue[k].scheduled_time <= cursor.local_time
        /\ cursor.after = "rewind" =>
               \A k \in 1..Len(queue) :
                   queue[k].scheduled_time > cursor.local_time => ~queue[k].executed

\* a commit has cut the queue behind an executed command
C27_Witness ==
    /\ cursor.after = "commit"
    /\ cursor.cut > 0
    /\ cursor.command_index = 1
    /\ cursor.command_queue[1].executed

\* C28: the player's path after a commit. At the end of a frame that committed
\* a branch the player's movement path is non-empty and every sample has
\* time <= player.local_time; and in every reachable state the path is
\* non-empty, so get_pos does not return None for the player.
C28_PlayerPath ==
    /\ player.path # <<>>
    /\ get_pos(player.path, player.local_time) # None
    /\ (frame.branch_ran /\ Committed) =>
           \A k \in 1..Len(player.path) : player.path[k][1] <= player.local_time

\* a commit has cut the sample of a ghosted move off a path that keeps an
\* earlier move
C28_Witness ==
    /\ frame.branch_ran /\ Committed
    /\ Len(player.path) >= 2
    /\ \E i \in 1..Len(permanent_command_log) :
          /\ IsMove(permanent_command_log[i])
          /\ current_timeline_id \in permanent_command_log[i].ghosted_timelines
          /\ \A k \in 1..Len(player.path) :
                player.path[k][1] # permanent_command_log[i].scheduled_time

\* C29: the timeline counters. next_timeline_id = current_timeline_id + 1 in
\* every reachable state; neither counter ever decreases; they change only in
\* a frame whose branch evaluation commits, and such a frame raises both by
\* exactly 1; every command's origin_timeline is <= current_timeline_id.
C29_TimelineCounters ==
    /\ [](/\ next_timeline_id = current_timeline_id + 1
          /\ \A i \in 1..Len(permanent_command_log) :
                permanent_command_log[i].origin_timeline <= current_timeline_id)
    /\ [][LET commits == /\ IsFrameStep
                         /\ frame'.branch_ran
                         /\ frame'.ghosts_made >= 1
          IN  /\ current_timeline_id' >= current_timeline_id
              /\ next_timeline_id' >= next_timeline_id
              /\ commits => /\ current_timeline_id' = current_timeline_id + 1
                            /\ next_timeline_id' = next_timeline_id + 1
              /\ ~commits => /\ current_timeline_id' = current_timeline_id
                             /\ next_timeline_id' = next_timeline_id]_vars

\* two commits, with a command issued on the first committed timeline
C29_Witness ==
    /\ current_timeline_id = 2
    /\ \E i \in 1..Len(permanent_command_log) :
          permanent_command_log[i].origin_timeline = 1

\* a step that is an accepted shoot event: Player.shoot appends its command to
\* world.global_commands
IsShootStep == Len(global_commands') > Len(global_commands)

\* C30: the shoot cooldown across rewinds. A shoot event is accepted only when
\* player.local_time - last_shot_time >= shoot_cooldown and sets last_shot_time
\* to local_time; last_shot_time is never rewound (no other step changes it),
\* so after a rewind to before the last shot no shot is accepted until
\* local_time is back at last_shot_time + shoot_cooldown; and the scheduled
\* times of the shoot commands increase in log order, at least shoot_cooldown
\* apart.
C30_ShootCooldown ==
    /\ [](\A i, j \in ShootIndices :
              i < j => permanent_command_log[j].scheduled_time
                           >= permanent_command_log[i].scheduled_time + ShootCooldown)
    /\ [][/\ IsShootStep =>
                /\ player.local_time >= player.last_shot_time + ShootCooldown
                /\ player'.last_shot_time = player.local_time
          /\ ~IsShootStep => player'.last_shot_time = player.last_shot_time
          /\ player'.last_shot_time >= player.last_shot_time]_vars

\* two shots were accepted, the player has rewound to before the second one
\* and resumed, and a shoot event now is rejected
C30_Witness ==
    /\ Cardinality(ShootIndices) >= 2
    /\ ~rewinding
    /\ player.local_time > 0
    /\ player.local_time < player.last_shot_time
    /\ ~can_shoot

====
